---- MODULE Spec2Model ----
(***************************************************************************)
(* raspessence: a bridge between spotifyd (D-Bus, MPRIS) and a BeoMaster   *)
(* amplifier behind a LinTronic serial box.                                *)
(*                                                                         *)
(*   Spec        the playback side of the event coordinator (main.py:      *)
(*               MainHandler: playback_handler, shutdown_timer,            *)
(*               power_off_handler) with the presence tracker (dbus.py:    *)
(*               DbusHandler) it asks for the player session               *)
(*   SpecVolume  the volume side of the coordinator (volume_handler),      *)
(*               which shares no state with the playback side              *)
(*   SpecCodec   the LinTronic frame codec (lintronic.py)                  *)
(*                                                                         *)
(* Coroutines are cut at their awaits: one action runs a coroutine from a  *)
(* suspension point to the next one (or to its return).                    *)
(***************************************************************************)
EXTENDS Integers, Sequences, FiniteSets, Bags, TLC

(***************************************************************************)
(* Bounds of the model.                                                    *)
(***************************************************************************)
\* handler coroutines suspended at the same time
MaxTasks == 2
\* volumes range over DefaultVolume - VolRange .. DefaultVolume + VolRange (tenths)
VolRange == 1
\* repeat counts the codec is exercised with: 0 .. MaxRepeat
MaxRepeat == 2

(***************************************************************************)
(* Constants of the program.                                               *)
(***************************************************************************)
\* State.last_known_volume = 0.5, in tenths
DefaultVolume == 5
\* timedelta(minutes=5), timedelta(minutes=15), in minutes
FIVE_MINUTES == 5
FIFTEEN_MINUTES == 15

\* PlaybackStatus: the enum's values
PlaybackStatus == {"Playing", "Paused", "Stopped", "Unknown"}

\* the strings a PlaybackStatus property change is delivered with: the four
\* names and one string that is no status name
RawStatuses == PlaybackStatus \cup {"Buffering"}

Volumes == (DefaultVolume - VolRange) .. (DefaultVolume + VolRange)

\* the bus name prefix of _on_name_owner_changed, two names carrying it and
\* one that does not
SpotifydName == "org.mpris.MediaPlayer2.spotifyd.instance1"
SpotifydName2 == "org.mpris.MediaPlayer2.spotifyd.instance2"
OtherName == "org.freedesktop.Notifications"
NoSession == "None"

VARIABLES
    \* MainHandler.state
    last_known_volume,
    last_known_playback_status,
    \* MainHandler.shutdown_timer_task: NoTask (None) or the shutdown_timer task
    \*   state   "sleeping" | "writing" (woke, suspended in the drain of its
    \*           write) | "done" | "cancelled"
    \*   timeout in minutes; fired: it has written AUDIO_POWER_OFF;
    \*   playing_since: a transition to Playing has written its AUDIO_AUX
    \*   while the task was sleeping
    shutdown_timer_task,
    \* the shutdown_timer tasks still alive on the event loop that MainHandler
    \* holds no reference to any more
    timers,
    \* the suspended handler coroutines of MainHandler (a bag)
    tasks,
    \* the serial stream is broken (drain raises)
    conn_lost,
    \* DbusHandler.spotify_handler: NoSession or the session's bus_name
    spotify_handler,
    \* the bus names that have an owner
    owners,
    \* the suspended _on_name_owner_changed coroutines (a bag)
    noc_tasks,
    \* the bus names of the SpotifydHandler objects that were created and
    \* subscribed with on_properties_changed and were not dropped (a bag)
    sessions,
    \* the step just taken: which coroutine ran (op, branch), its input (status,
    \* volume), the state it read at its call (prev, prev_volume), its effects
    \* so far (out), the timer task that ran (timer) and the state of the timer
    \* task held before a step that cancels or replaces it (held_before)
    ev,
    \* codec: see SpecCodec
    frame,
    reader,
    rx,
    \* webserver: the configured secret, and the Authorization header, the
    \* position and the response status of the last request (see SpecWeb)
    http

coordVars == <<last_known_volume, last_known_playback_status, shutdown_timer_task,
               timers, tasks, conn_lost>>
dbusVars == <<spotify_handler, owners, noc_tasks, sessions>>
codecVars == <<frame, reader, rx>>
vars == <<last_known_volume, last_known_playback_status, shutdown_timer_task,
          timers, tasks, conn_lost, spotify_handler, owners, noc_tasks, sessions,
          ev,
          frame, reader, rx, http>>

(***************************************************************************)
(* Effects of a coroutine, in the order it performs them.                  *)
(***************************************************************************)
\* LinTronicConnection.write_message_to_lintronic(beo_command, repeat_count):
\* the frame handed to writer.write
Write(cmd, repeat_count) == [dev |-> "lintronic", cmd |-> cmd, n |-> repeat_count]
\* SpotifydHandler.send_command(PAUSE): player.call_pause()
CallPause == [dev |-> "spotifyd", cmd |-> "pause", n |-> 0]
\* the logger.warning of send_spotify_command without a session
WarnNoSession == [dev |-> "log", cmd |-> "no connection with spotifyd", n |-> 0]
\* start_shutdown_timer(timeout) and shutdown_timer_task.cancel()
Armed(timeout) == [dev |-> "timer", cmd |-> "start", n |-> timeout]
Cancelled == [dev |-> "timer", cmd |-> "cancel", n |-> 0]

Writes(out) == SelectSeq(out, LAMBDA e : e.dev = "lintronic")

NoEv == [op |-> "none", branch |-> "", status |-> "", volume |-> 0,
         prev |-> "", prev_volume |-> 0, out |-> <<>>, timer |-> "",
         held_before |-> "", bus_name |-> "", has_owner |-> FALSE]

\* a handler coroutine at its call
NewTask(kind) == [kind |-> kind, pc |-> "call", status |-> "", volume |-> 0,
                  out |-> <<>>]

\* ev of a step of coroutine t
Ev(op, branch, t) == [NoEv EXCEPT !.op = op, !.branch = branch, !.status = t.status,
                         !.volume = t.volume, !.out = t.out]

Remove(s, i) == SubSeq(s, 1, i - 1) \o SubSeq(s, i + 1, Len(s))

\* coroutines suspended on the event loop: one more, one less, one moved on
Suspend(bag, t) == bag (+) SetToBag({t})
Finish(bag, t) == bag (-) SetToBag({t})
Resume(bag, t, u) == Suspend(Finish(bag, t), u)

(***************************************************************************)
(* asyncio.Task.cancel() and MainHandler.start_shutdown_timer              *)
(***************************************************************************)
NoTask == [state |-> "none", timeout |-> 0, fired |-> FALSE, playing_since |-> FALSE]

\* asyncio.create_task(self.shutdown_timer(timeout))
CreateTask(timeout) == [state |-> "sleeping", timeout |-> timeout, fired |-> FALSE,
                        playing_since |-> FALSE]

\* the task has not finished: it is suspended in its sleep or in its drain
Alive(task) == task.state \in {"sleeping", "writing"}

\* a cancel that does not reach the task
TaskCancelLost(task) == task

\* task.cancel(): CancelledError is thrown into the task at the await it is
\* suspended in; a finished task is left alone
TaskCancel(task) == IF Alive(task) THEN [task EXCEPT !.state = "cancelled"] ELSE task

\* if self.shutdown_timer_task is not None: self.shutdown_timer_task.cancel()
CancelIfNotNone(task) == IF task # NoTask THEN TaskCancel(task) ELSE task

\* start_shutdown_timer without the cancel of the task held
StartShutdownTimerNoCancel(held, unreferenced, timeout) ==
    [task |-> CreateTask(timeout),
     unreferenced |-> IF Alive(held) THEN Append(unreferenced, held)
                      ELSE unreferenced]

\* start_shutdown_timer: cancel the task held, then hold a new one; a task
\* let go of while alive stays on the event loop
StartShutdownTimer(held, unreferenced, timeout) ==
    LET old == CancelIfNotNone(held)
    IN [task |-> CreateTask(timeout),
        unreferenced |-> IF Alive(old) THEN Append(unreferenced, old)
                         ELSE unreferenced]

\* the PLAYING branch has written AUDIO_AUX: noted on a sleeping task
SeesPlaying(task) ==
    IF task.state = "sleeping" THEN [task EXCEPT !.playing_since = TRUE] ELSE task

\* the shutdown timers that are pending: created, not cancelled, not woken
Pending == {k \in 0..Len(timers) :
               IF k = 0 THEN shutdown_timer_task.state = "sleeping"
               ELSE timers[k].state = "sleeping"}

(***************************************************************************)
(* MainHandler.volume_handler                                              *)
(***************************************************************************)
\* volume_handler comparing with >= instead of >
VolumeCommandGe(volume, last) == IF volume >= last THEN "VOLUME_UP" ELSE "VOLUME_DOWN"

\* if volume > self.state.last_known_volume: VOLUME_UP, else: VOLUME_DOWN
VolumeCommand(volume, last) == IF volume > last THEN "VOLUME_UP" ELSE "VOLUME_DOWN"

\* the call, up to the drain of its write
VolumeCall(volume) ==
    /\ BagCardinality(tasks) < MaxTasks
    /\ LET t == [NewTask("volume") EXCEPT
                    !.volume = volume, !.pc = "drain",
                    !.out = <<Write(VolumeCommand(volume, last_known_volume), 1)>>]
       IN /\ tasks' = Suspend(tasks, t)
          /\ ev' = [Ev("volume_call", "", t) EXCEPT !.prev_volume = last_known_volume]
    /\ UNCHANGED <<last_known_volume, last_known_playback_status,
                   shutdown_timer_task, timers, conn_lost, dbusVars, codecVars, http>>

\* the drain returned: self.state.last_known_volume = volume
VolumeReturn(t) ==
    /\ BagIn(t, tasks)
    /\ t.kind = "volume"
    /\ ~conn_lost
    /\ last_known_volume' = t.volume
    /\ tasks' = Finish(tasks, t)
    /\ ev' = Ev("volume_return", "", t)
    /\ UNCHANGED <<last_known_playback_status, shutdown_timer_task, timers,
                   conn_lost, dbusVars, codecVars, http>>

\* drain raised (the stream is broken): the coroutine ends with the exception
\* at the write it is suspended in
DrainRaises(t) ==
    /\ BagIn(t, tasks)
    /\ t.pc = "drain"
    /\ conn_lost
    /\ tasks' = Finish(tasks, t)
    /\ ev' = Ev("raise", t.kind, t)
    /\ UNCHANGED <<last_known_volume, last_known_playback_status,
                   shutdown_timer_task, timers, conn_lost, dbusVars, codecVars>>

(***************************************************************************)
(* MainHandler.playback_handler                                            *)
(***************************************************************************)
\* a handler without the short circuit
ShortCircuitNever(status, last) == FALSE

\* the short circuit taken on the parsed status instead of the raw string
ShortCircuitParsed(status, last) ==
    (IF status \in PlaybackStatus THEN status ELSE "Unknown") = last

\* if status == self.state.last_known_playback_status.value: return
ShortCircuit(status, last) == status = last

\* PlaybackStatus(status): the member with that value, or ValueError
ParseStatus(status) == IF status \in PlaybackStatus THEN status ELSE "ValueError"

\* the PAUSED branch waking the amplifier from every status but Playing
WakesAmplifierUnlessPlaying(last) == last # "Playing"

\* case PAUSED: if self.state.last_known_playback_status == PlaybackStatus.STOPPED
WakesAmplifier(last) == last = "Stopped"

\* both branches starting the timer with FIFTEEN_MINUTES
TimeoutOfAlwaysFifteen(playback_status) == FIFTEEN_MINUTES

\* the timeout the branch of playback_status starts the shutdown timer with
TimeoutOf(playback_status) ==
    IF playback_status = "Paused" THEN FIFTEEN_MINUTES ELSE FIVE_MINUTES

\* the branch of playback_status awaits a write of AUDIO_AUX first
AwaitsAux(playback_status, last) ==
    \/ playback_status = "Playing"
    \/ playback_status = "Paused" /\ WakesAmplifier(last)

\* the PLAYING branch without its cancel
PlayingCancelsNothing(task) == task

\* what the PLAYING branch does to the timer task after its write
PlayingCancels(task) == CancelIfNotNone(task)

\* the call, up to its return or to the drain of its AUDIO_AUX write
PlaybackCall(status) ==
    LET last == last_known_playback_status
        t == [NewTask("playback") EXCEPT !.status = status]
        playback_status == ParseStatus(status)
    IN
    /\ BagCardinality(tasks) < MaxTasks
    /\ IF ShortCircuit(status, last) THEN
          /\ ev' = [Ev("playback_return", "short_circuit", t) EXCEPT !.prev = last]
          /\ UNCHANGED <<last_known_playback_status, shutdown_timer_task,
                         timers, tasks>>
       ELSE IF playback_status = "ValueError" THEN
          /\ last_known_playback_status' = "Unknown"
          /\ ev' = [Ev("playback_return", "unparseable", t) EXCEPT !.prev = last]
          /\ UNCHANGED <<shutdown_timer_task, timers, tasks>>
       ELSE IF AwaitsAux(playback_status, last) THEN
          LET u == [t EXCEPT !.pc = "drain", !.out = <<Write("AUDIO_AUX", 1)>>]
          IN /\ tasks' = Suspend(tasks, u)
             /\ ev' = [Ev("playback_call", playback_status, u) EXCEPT !.prev = last]
             /\ IF playback_status = "Playing"
                THEN /\ shutdown_timer_task' = SeesPlaying(shutdown_timer_task)
                     /\ timers' = [k \in DOMAIN timers |-> SeesPlaying(timers[k])]
                ELSE UNCHANGED <<shutdown_timer_task, timers>>
             /\ UNCHANGED last_known_playback_status
       ELSE IF playback_status \in {"Paused", "Stopped"} THEN
          LET started == StartShutdownTimer(shutdown_timer_task, timers,
                                            TimeoutOf(playback_status))
          IN /\ shutdown_timer_task' = started.task
             /\ timers' = started.unreferenced
             /\ last_known_playback_status' = playback_status
             /\ ev' = [Ev("playback_return", playback_status,
                          [t EXCEPT !.out = <<Armed(TimeoutOf(playback_status))>>])
                       EXCEPT !.prev = last,
                              !.held_before = shutdown_timer_task.state]
             /\ UNCHANGED tasks
       ELSE
          \* UNKNOWN: no case of the match
          /\ last_known_playback_status' = playback_status
          /\ ev' = [Ev("playback_return", playback_status, t) EXCEPT !.prev = last]
          /\ UNCHANGED <<shutdown_timer_task, timers, tasks>>
    /\ UNCHANGED <<last_known_volume, conn_lost, dbusVars, codecVars, http>>

\* the drain of the AUDIO_AUX write returned: the rest of the branch
PlaybackReturn(t) ==
    /\ BagIn(t, tasks)
    /\ t.kind = "playback"
    /\ ~conn_lost
    /\ IF t.status = "Playing" THEN
          /\ shutdown_timer_task' = PlayingCancels(shutdown_timer_task)
          /\ UNCHANGED timers
          /\ ev' = [Ev("playback_return", t.status,
                       [t EXCEPT !.out = IF shutdown_timer_task = NoTask THEN @
                                         ELSE Append(@, Cancelled)])
                    EXCEPT !.held_before = shutdown_timer_task.state]
       ELSE
          LET started == StartShutdownTimer(shutdown_timer_task, timers,
                                            TimeoutOf(t.status))
          IN /\ shutdown_timer_task' = started.task
             /\ timers' = started.unreferenced
             /\ ev' = [Ev("playback_return", t.status,
                          [t EXCEPT !.out = Append(@, Armed(TimeoutOf(t.status)))])
                       EXCEPT !.held_before = shutdown_timer_task.state]
    /\ last_known_playback_status' = t.status
    /\ tasks' = Finish(tasks, t)
    /\ UNCHANGED <<last_known_volume, conn_lost, dbusVars, codecVars, http>>

(***************************************************************************)
(* MainHandler.shutdown_timer                                              *)
(***************************************************************************)
\* the re-check letting only Paused through
ShouldPowerOffPausedOnly(last) == last = "Paused"

\* the re-check letting every status but Playing through
ShouldPowerOffUnlessPlaying(last) == last # "Playing"

\* the status re-check after the sleep: not (status not in (PAUSED, STOPPED))
ShouldPowerOff(last) == last \in {"Paused", "Stopped"}

\* the task after its sleep: the re-check, and the write of AUDIO_POWER_OFF up
\* to its drain
Woken(task, last) ==
    IF ShouldPowerOff(last)
    THEN [task EXCEPT !.state = "writing", !.fired = TRUE]
    ELSE [task EXCEPT !.state = "done"]

\* task k's sleep is over (k = 0: the task MainHandler holds)
TimerWake(k) ==
    /\ k \in Pending
    /\ LET task == IF k = 0 THEN shutdown_timer_task ELSE timers[k]
           woken == Woken(task, last_known_playback_status)
       IN /\ IF k = 0
             THEN shutdown_timer_task' = woken /\ UNCHANGED timers
             ELSE /\ timers' = IF Alive(woken) THEN [timers EXCEPT ![k] = woken]
                               ELSE Remove(timers, k)
                  /\ UNCHANGED shutdown_timer_task
          /\ ev' = [NoEv EXCEPT
                       !.op = "timer_wake",
                       !.branch = IF woken.fired THEN "power_off" ELSE "warning",
                       !.prev = last_known_playback_status,
                       !.timer = IF k = 0 THEN "held" ELSE "unreferenced",
                       !.out = IF woken.fired THEN <<Write("AUDIO_POWER_OFF", 1)>>
                               ELSE <<>>]
    /\ UNCHANGED <<last_known_volume, last_known_playback_status,
                   tasks, conn_lost, dbusVars, codecVars, http>>

\* the drain of task k's write returned or raised: the task is finished
TimerDone(k) ==
    /\ k \in 0..Len(timers)
    /\ IF k = 0
       THEN /\ shutdown_timer_task.state = "writing"
            /\ shutdown_timer_task' = [shutdown_timer_task EXCEPT !.state = "done"]
            /\ UNCHANGED timers
       ELSE /\ timers[k].state = "writing"
            /\ timers' = Remove(timers, k)
            /\ UNCHANGED shutdown_timer_task
    /\ ev' = [NoEv EXCEPT !.op = "timer_done",
                          !.timer = IF k = 0 THEN "held" ELSE "unreferenced"]
    /\ UNCHANGED <<last_known_volume, last_known_playback_status,
                   tasks, conn_lost, dbusVars, codecVars, http>>

(***************************************************************************)
(* MainHandler.power_off_handler                                           *)
(***************************************************************************)
\* the call, up to the drain of the VOLUME_DOWN write
PowerOffCall ==
    /\ BagCardinality(tasks) < MaxTasks
    /\ LET t == [NewTask("power_off") EXCEPT
                    !.pc = "drain", !.out = <<Write("VOLUME_DOWN", 10)>>]
       IN /\ tasks' = Suspend(tasks, t)
          /\ ev' = Ev("power_off_call", "", t)
    /\ UNCHANGED <<last_known_volume, last_known_playback_status,
                   shutdown_timer_task, timers, conn_lost, dbusVars, codecVars>>

\* the drain returned: await asyncio.sleep(1)
PowerOffSleep(t) ==
    /\ BagIn(t, tasks)
    /\ t.kind = "power_off"
    /\ t.pc = "drain"
    /\ Len(t.out) = 1
    /\ ~conn_lost
    /\ tasks' = Resume(tasks, t, [t EXCEPT !.pc = "sleep"])
    /\ ev' = Ev("power_off_sleep", "", t)
    /\ UNCHANGED <<last_known_volume, last_known_playback_status,
                   shutdown_timer_task, timers, conn_lost, dbusVars, codecVars, http>>

\* send_spotify_command without the check for a session
SendSpotifyCommandNoCheck(session) == <<CallPause>>

\* DbusHandler.send_spotify_command(PAUSE): what it does with the session held
SendSpotifyCommand(session) ==
    IF session = NoSession THEN <<WarnNoSession>> ELSE <<CallPause>>

\* the sleep is over: send_spotify_command(PAUSE); without a session it
\* returns at once and the AUDIO_POWER_OFF write follows, up to its drain;
\* with one the coroutine is suspended in call_pause
PowerOffPause(t) ==
    /\ BagIn(t, tasks)
    /\ t.kind = "power_off"
    /\ t.pc = "sleep"
    /\ LET sent == SendSpotifyCommand(spotify_handler) IN
       IF sent = <<CallPause>> THEN
          LET u == [t EXCEPT !.pc = "pause", !.out = @ \o sent]
          IN /\ tasks' = Resume(tasks, t, u)
             /\ ev' = Ev("power_off_pause", "session", u)
       ELSE
          LET u == [t EXCEPT !.pc = "drain",
                             !.out = @ \o sent \o <<Write("AUDIO_POWER_OFF", 1)>>]
          IN /\ tasks' = Resume(tasks, t, u)
             /\ ev' = Ev("power_off_pause", "no_session", u)
    /\ UNCHANGED <<last_known_volume, last_known_playback_status,
                   shutdown_timer_task, timers, conn_lost, dbusVars, codecVars, http>>

\* call_pause returned: write AUDIO_POWER_OFF, up to its drain
PowerOffWrite(t) ==
    /\ BagIn(t, tasks)
    /\ t.kind = "power_off"
    /\ t.pc = "pause"
    /\ LET u == [t EXCEPT !.pc = "drain",
                           !.out = Append(@, Write("AUDIO_POWER_OFF", 1))]
       IN /\ tasks' = Resume(tasks, t, u)
          /\ ev' = Ev("power_off_write", "", u)
    /\ UNCHANGED <<last_known_volume, last_known_playback_status,
                   shutdown_timer_task, timers, conn_lost, dbusVars, codecVars, http>>

\* a power-off that leaves the held shutdown timer alone
PowerOffKeepsTimer(task) == task

\* power_off_handler's last lines: the held shutdown timer, if any, is cancelled
PowerOffCancels(task) == CancelIfNotNone(task)

\* the drain of the AUDIO_POWER_OFF write returned: the status and the timer
PowerOffReturn(t) ==
    /\ BagIn(t, tasks)
    /\ t.kind = "power_off"
    /\ t.pc = "drain"
    /\ Len(t.out) > 1
    /\ ~conn_lost
    /\ last_known_playback_status' = "Paused"
    /\ shutdown_timer_task' = PowerOffCancels(shutdown_timer_task)
    /\ tasks' = Finish(tasks, t)
    /\ ev' = [Ev("power_off_return", "",
                 [t EXCEPT !.out = IF shutdown_timer_task = NoTask THEN @
                                   ELSE Append(@, Cancelled)])
              EXCEPT !.held_before = shutdown_timer_task.state,
                     !.prev = last_known_playback_status]
    /\ UNCHANGED <<last_known_volume, timers, conn_lost, dbusVars, codecVars>>

\* the serial stream breaks
ConnectionLost ==
    /\ ~conn_lost
    /\ conn_lost' = TRUE
    /\ ev' = [NoEv EXCEPT !.op = "connection_lost"]
    /\ UNCHANGED <<last_known_volume, last_known_playback_status,
                   shutdown_timer_task, timers, tasks, dbusVars, codecVars, http>>

(***************************************************************************)
(* DbusHandler: the presence tracker                                       *)
(***************************************************************************)
\* _on_name_owner_changed coroutines suspended at the same time
MaxNocTasks == 2
\* SpotifydHandler objects created and not dropped
MaxSessions == 2

BusNames == {SpotifydName, SpotifydName2, OtherName}
\* the names whose ownership changes while the coordinator is observed
CoordBusNames == {SpotifydName}

\* bus_name.startswith("org.mpris.MediaPlayer2.spotifyd")
HasPrefix(bus_name) == bus_name \in {SpotifydName, SpotifydName2}

\* DbusHandler.create: a session for a name with the prefix that is owned at
\* start-up
InitialSession(owned) ==
    IF \E b \in owned : HasPrefix(b)
    THEN CHOOSE b \in owned : HasPrefix(b)
    ELSE NoSession

\* DbusHandler.create: list_names may give the owned names in any order; the
\* first one with the prefix gets the session
InitialSessions(owned) ==
    IF \E b \in owned : HasPrefix(b)
    THEN {b \in owned : HasPrefix(b)}
    ELSE {NoSession}

\* the sessions created and subscribed when spotify_handler is session
SessionsOf(session) == IF session = NoSession THEN EmptyBag ELSE SetToBag({session})

\* a name gains or loses its owner; the bus signals NameOwnerChanged and
\* _on_name_owner_changed runs up to its return or its call_name_has_owner
NameOwnerChanged(bus_name) ==
    /\ owners' = IF bus_name \in owners THEN owners \ {bus_name}
                 ELSE owners \cup {bus_name}
    /\ IF ~HasPrefix(bus_name) THEN
          /\ ev' = [NoEv EXCEPT !.op = "noc_return", !.branch = "ignored",
                                !.bus_name = bus_name]
          /\ UNCHANGED noc_tasks
       ELSE
          /\ BagCardinality(noc_tasks) < MaxNocTasks
          /\ noc_tasks' = Suspend(noc_tasks, [bus_name |-> bus_name, pc |-> "has_owner"])
          /\ ev' = [NoEv EXCEPT !.op = "noc_call", !.bus_name = bus_name]
    /\ UNCHANGED <<coordVars, spotify_handler, sessions, codecVars, http>>

\* dbus.py:119-123: the condition of the first branch
DropsSession(session, bus_name, has_owner) ==
    session # NoSession /\ session = bus_name /\ ~has_owner

\* dbus.py:127: the condition of the elif branch
CreatesSession(session, has_owner) == session = NoSession /\ has_owner

\* call_name_has_owner returned: drop the session, or start creating one
\* (up to the introspect call of SpotifydHandler.create), or do nothing
NameHasOwnerReply(t) ==
    /\ BagIn(t, noc_tasks)
    /\ t.pc = "has_owner"
    /\ LET bus_name == t.bus_name
           has_owner == bus_name \in owners
           e == [NoEv EXCEPT !.bus_name = bus_name, !.has_owner = has_owner]
       IN IF DropsSession(spotify_handler, bus_name, has_owner) THEN
             /\ spotify_handler' = NoSession
             /\ sessions' = sessions (-) SessionsOf(spotify_handler)
             /\ noc_tasks' = Finish(noc_tasks, t)
             /\ ev' = [e EXCEPT !.op = "noc_return", !.branch = "lost"]
          ELSE IF CreatesSession(spotify_handler, has_owner) THEN
             /\ noc_tasks' = Resume(noc_tasks, t, [t EXCEPT !.pc = "create"])
             /\ ev' = [e EXCEPT !.op = "noc_create"]
             /\ UNCHANGED <<spotify_handler, sessions>>
          ELSE
             /\ noc_tasks' = Finish(noc_tasks, t)
             /\ ev' = [e EXCEPT !.op = "noc_return", !.branch = "unchanged"]
             /\ UNCHANGED <<spotify_handler, sessions>>
    /\ UNCHANGED <<coordVars, owners, codecVars, http>>

\* SpotifydHandler.create returned: the session is subscribed and stored
SessionCreated(t) ==
    /\ BagIn(t, noc_tasks)
    /\ t.pc = "create"
    /\ BagCardinality(sessions) < MaxSessions
    /\ spotify_handler' = t.bus_name
    /\ sessions' = sessions (+) SessionsOf(t.bus_name)
    /\ noc_tasks' = Finish(noc_tasks, t)
    /\ ev' = [NoEv EXCEPT !.op = "noc_return", !.branch = "new",
                          !.bus_name = t.bus_name]
    /\ UNCHANGED <<coordVars, owners, codecVars, http>>

\* the introspect call of SpotifydHandler.create is answered with an error
\* because the name has lost its owner: the coroutine ends with the DBusError
SessionCreateRaises(t) ==
    /\ BagIn(t, noc_tasks)
    /\ t.pc = "create"
    /\ t.bus_name \notin owners
    /\ noc_tasks' = Finish(noc_tasks, t)
    /\ ev' = [NoEv EXCEPT !.op = "raise", !.branch = "noc",
                          !.bus_name = t.bus_name]
    /\ UNCHANGED <<coordVars, spotify_handler, owners, sessions, codecVars, http>>

(***************************************************************************)
(* webserver.py: GET /off.  Strings are sequences of one-character         *)
(* strings, bytes are sequences of byte values.                            *)
(***************************************************************************)
\* the longest secret and the longest token a request is sent with
MaxSecretLen == 2

\* the characters of the secrets and tokens
TokenChars == {"s", "t"}

\* the strings over TokenChars of the lengths in lens
Tokens(lens) == UNION {[1..n -> TokenChars] : n \in lens}

\* RASPESSENCE_AUTH_SECRET: main.py:152 refuses an empty one
Secrets == Tokens(1..MaxSecretLen)

\* request.headers.get("Authorization") of a request without the header
NoHeader == <<"None">>

\* "Bearer "
BearerPrefix == <<"B", "e", "a", "r", "e", "r", " ">>

\* what a request's header starts with: the prefix, the prefix in lower case,
\* the prefix without its space, another scheme, nothing
HeaderPrefixes == {BearerPrefix, <<"b", "e", "a", "r", "e", "r", " ">>,
                   <<"B", "e", "a", "r", "e", "r">>,
                   <<"B", "a", "s", "i", "c", " ">>, <<>>}

\* the Authorization headers of the requests
AuthHeaders == {NoHeader} \cup {p \o t : p \in HeaderPrefixes,
                                         t \in Tokens(0..MaxSecretLen)}

\* str.encode(): the bytes of a string of ASCII characters
CodePoint(c) ==
    CASE c = " " -> 32 [] c = "B" -> 66 [] c = "a" -> 97 [] c = "b" -> 98
      [] c = "c" -> 99 [] c = "e" -> 101 [] c = "i" -> 105 [] c = "r" -> 114
      [] c = "s" -> 115 [] c = "t" -> 116
Encode(str) == [k \in DOMAIN str |-> CodePoint(str[k])]

\* str.startswith(prefix)
StartsWith(str, prefix) ==
    Len(str) >= Len(prefix) /\ SubSeq(str, 1, Len(prefix)) = prefix

\* a comparison that stops at the end of the token
CompareDigestPrefix(a, b) == Len(a) <= Len(b) /\ a = SubSeq(b, 1, Len(a))

\* secrets.compare_digest(a, b)
CompareDigest(a, b) == a = b

\* webserver.py:14: not (not auth_header or not auth_header.startswith("Bearer "))
HasBearerPrefix(auth_header) ==
    /\ auth_header # NoHeader
    /\ auth_header # <<>>
    /\ StartsWith(auth_header, BearerPrefix)

\* webserver.py:14-18: the request gets past both 401 returns
\* (auth_header[7:] is the header from its eighth character on)
Authorized(auth_header, auth_secret) ==
    /\ HasBearerPrefix(auth_header)
    /\ CompareDigest(Encode(SubSeq(auth_header, 8, Len(auth_header))),
                     Encode(auth_secret))

\* no request yet
HttpIdle(auth_secret) == [secret |-> auth_secret, auth_header |-> NoHeader,
                          pc |-> "idle", status |-> 0]

\* the secret of the specifications that send no request
DefaultSecret == <<"s">>

\* GET /off with the header auth_header, one request at a time: 401, or
\* power_off_callback() runs up to its first await
PowerOffRequest(auth_header) ==
    /\ http.pc # "callback"
    /\ IF Authorized(auth_header, http.secret) THEN
          /\ PowerOffCall
          /\ http' = [http EXCEPT !.auth_header = auth_header,
                                  !.pc = "callback", !.status = 0]
       ELSE
          /\ http' = [http EXCEPT !.auth_header = auth_header,
                                  !.pc = "done", !.status = 401]
          /\ ev' = [NoEv EXCEPT !.op = "http_401"]
          /\ UNCHANGED <<coordVars, dbusVars, codecVars>>

\* power_off_callback() returned: web.Response(status=200)
PowerOffResponse(t) ==
    /\ http.pc = "callback"
    /\ PowerOffReturn(t)
    /\ http' = [http EXCEPT !.pc = "done", !.status = 200]

\* power_off_callback() raised: aiohttp answers 500
PowerOffRaises(t) ==
    /\ http.pc = "callback"
    /\ DrainRaises(t)
    /\ http' = [http EXCEPT !.pc = "done", !.status = 500]

(***************************************************************************)
(* The coordinator and the presence tracker on one event loop              *)
(***************************************************************************)

Init ==
    /\ last_known_volume = DefaultVolume
    /\ last_known_playback_status = "Unknown"
    /\ shutdown_timer_task = NoTask
    /\ timers = <<>>
    /\ tasks = EmptyBag
    /\ conn_lost = FALSE
    /\ owners \in SUBSET CoordBusNames
    /\ spotify_handler = InitialSession(owners)
    /\ noc_tasks = EmptyBag
    /\ sessions = SessionsOf(spotify_handler)
    /\ ev = NoEv
    /\ http = HttpIdle(DefaultSecret)
    /\ frame = <<>>
    /\ reader = <<>>
    /\ rx = [pc |-> "listen", outcome |-> "", cmd |-> <<>>, data |-> <<>>,
             checksum |-> <<>>, expected_checksum |-> <<>>, last |-> "",
             skipped |-> 0, flip |-> 0]

Next ==
    \/ \E status \in RawStatuses : PlaybackCall(status)
    \/ \E t \in BagToSet(tasks) : PlaybackReturn(t)
    \/ \E t \in BagToSet(tasks) : DrainRaises(t) /\ UNCHANGED http
    \/ \E k \in 0..Len(timers) : TimerWake(k)
    \/ \E k \in 0..Len(timers) : TimerDone(k)
    \/ PowerOffCall /\ UNCHANGED http
    \/ \E t \in BagToSet(tasks) : PowerOffSleep(t)
    \/ \E t \in BagToSet(tasks) : PowerOffPause(t)
    \/ \E t \in BagToSet(tasks) : PowerOffWrite(t)
    \/ \E t \in BagToSet(tasks) : PowerOffReturn(t) /\ UNCHANGED http
    \/ ConnectionLost
    \/ \E bus_name \in CoordBusNames :
          noc_tasks = EmptyBag /\ NameOwnerChanged(bus_name)
    \/ \E t \in BagToSet(noc_tasks) : NameHasOwnerReply(t)
    \/ \E t \in BagToSet(noc_tasks) : SessionCreated(t)

Spec == Init /\ [][Next]_vars

\* the event loop runs the held shutdown_timer task when its sleep is over
SpecLive == Init /\ [][Next]_vars /\ WF_vars(TimerWake(0))

(***************************************************************************)
(* The volume handler on the event loop                                    *)
(***************************************************************************)
NextVolume ==
    \/ \E volume \in Volumes : VolumeCall(volume)
    \/ \E t \in BagToSet(tasks) : VolumeReturn(t)
    \/ \E t \in BagToSet(tasks) : DrainRaises(t) /\ UNCHANGED http
    \/ ConnectionLost

SpecVolume == Init /\ [][NextVolume]_vars

(***************************************************************************)
(* All the handlers of MainHandler on the event loop, with a serial stream  *)
(* that stays up and a session that stays as it was at start-up            *)
(***************************************************************************)
NextAll ==
    \/ \E status \in RawStatuses : PlaybackCall(status)
    \/ \E t \in BagToSet(tasks) : PlaybackReturn(t)
    \/ \E volume \in Volumes : VolumeCall(volume)
    \/ \E t \in BagToSet(tasks) : VolumeReturn(t)
    \/ \E k \in 0..Len(timers) : TimerWake(k)
    \/ \E k \in 0..Len(timers) : TimerDone(k)
    \/ PowerOffCall /\ UNCHANGED http
    \/ \E t \in BagToSet(tasks) : PowerOffSleep(t)
    \/ \E t \in BagToSet(tasks) : PowerOffPause(t)
    \/ \E t \in BagToSet(tasks) : PowerOffWrite(t)
    \/ \E t \in BagToSet(tasks) : PowerOffReturn(t) /\ UNCHANGED http

SpecAll == Init /\ [][NextAll]_vars

(***************************************************************************)
(* lintronic.py: the frame codec.  Bytes are their values 0..255, byte     *)
(* strings are sequences of them.                                          *)
(***************************************************************************)
\* the byte of a decimal digit, as bytes(..., "ascii") gives it
Ascii(digit) == 48 + digit

AsciiOf(digits) == [k \in DOMAIN digits |-> Ascii(digits[k])]

\* b"<" and b">"
START_OF_TRANSMISSION == 60
END_OF_TRANSMISSION == 62
\* b"01", b"00", b"024"
LINTRONIC_ADDRESS == AsciiOf(<<0, 1>>)
OUR_ADDRESS == AsciiOf(<<0, 0>>)
MAGIC_SUFFIX == AsciiOf(<<0, 2, 4>>)

\* class BeoCommand: the digits of each member's value
BeoCommandDigits ==
  [
    VOLUME_DOWN      |-> <<0,4,0,2,5,5,0,1,0,0,1,0,7,0,1,0,0,1,1,0,0,0,0,0,0,0,0,0,0,0,0,0,0>>,
    VOLUME_UP        |-> <<0,4,0,2,5,5,0,1,0,0,1,0,7,0,1,0,0,0,0,9,6,0,0,0,0,0,0,0,0,0,0,0,0>>,
    AUDIO_AUX        |-> <<0,4,0,2,5,5,0,1,0,0,1,0,7,0,1,0,0,1,1,3,1,0,0,0,0,0,0,0,0,0,0,0,0>>,
    AUDIO_NEXT       |-> <<0,4,0,2,5,5,0,1,0,0,1,0,7,0,1,0,0,1,0,5,2,0,0,0,0,0,0,0,0,0,0,0,0>>,
    AUDIO_PREV       |-> <<0,4,0,2,5,5,0,1,0,0,1,0,7,0,1,0,0,1,0,5,0,0,0,0,0,0,0,0,0,0,0,0,0>>,
    AUDIO_PAUSE      |-> <<0,4,0,2,5,5,0,1,0,0,1,0,7,0,1,0,0,1,0,5,4,0,0,0,0,0,0,0,0,0,0,0,0>>,
    AUDIO_PLAY       |-> <<0,4,0,2,5,5,0,1,0,0,1,0,7,0,1,0,0,1,0,5,3,0,0,0,0,0,0,0,0,0,0,0,0>>,
    A_TAPE2          |-> <<0,4,0,2,5,5,0,1,0,0,1,0,7,0,1,0,0,1,1,4,8,0,0,0,0,0,0,0,0,0,0,0,0>>,
    AUDIO_POWER_OFF  |-> <<0,4,0,2,5,5,0,1,0,0,1,0,7,0,1,0,0,1,0,1,2,0,0,0,0,0,0,0,0,0,0,0,0>>
  ]

BeoCommands == DOMAIN BeoCommandDigits
BeoCommandValue(beo_command) == AsciiOf(BeoCommandDigits[beo_command])

\* the decimal digits of n, most significant first
RECURSIVE Digits(_)
Digits(n) == IF n < 10 THEN <<n>> ELSE Append(Digits(n \div 10), n % 10)

\* f"{n:03}": zero-padded to a width of at least 3
Format03(n) ==
    LET d == Digits(n)
    IN AsciiOf([k \in 1..(3 - Len(d)) |-> 0] \o d)

\* sum(c for c in msg)
RECURSIVE SumBytes(_)
SumBytes(msg) == IF msg = <<>> THEN 0 ELSE Head(msg) + SumBytes(Tail(msg))

\* bytes(f"{sum(c for c in msg) % 256:03}", "ascii")
Checksum(msg) == Format03(SumBytes(msg) % 256)

\* the frame of write_message_to_lintronic, from any sender to any receiver
EncodeFrame(to_address, from_address, value, repeat_count) ==
    LET msg == to_address \o from_address \o value \o Format03(repeat_count)
               \o MAGIC_SUFFIX
    IN <<START_OF_TRANSMISSION>> \o msg \o Checksum(msg) \o <<END_OF_TRANSMISSION>>

\* write_message_to_lintronic: what writer.write is called with
WriteMessageToLintronic(beo_command, repeat_count) ==
    EncodeFrame(LINTRONIC_ADDRESS, OUR_ADDRESS, BeoCommandValue(beo_command),
                repeat_count)

\* Python's s[i:j] (0-based, j exclusive, negative indices from the end)
SliceIndex(i, n) == IF i < 0 THEN (IF i + n < 0 THEN 0 ELSE i + n)
                    ELSE (IF i > n THEN n ELSE i)
PySlice(s, i, j) == SubSeq(s, SliceIndex(i, Len(s)) + 1, SliceIndex(j, Len(s)))

\* the position of the first byte b in s, 0 if there is none
FirstIndex(s, b) ==
    IF \E k \in DOMAIN s : s[k] = b
    THEN CHOOSE k \in DOMAIN s : s[k] = b /\ \A j \in 1..(k - 1) : s[j] # b
    ELSE 0

\* data = data_and_checksum[:-4]; checksum = data_and_checksum[-3:-1]
DataOf(data_and_checksum) == PySlice(data_and_checksum, 0, -4)
ChecksumOf(data_and_checksum) == PySlice(data_and_checksum, -3, -1)

\* a receiver that takes the Lintronic's address for its own
AddressedToLintronic(to_address) == to_address = LINTRONIC_ADDRESS

\* lintronic.py:53-54 and 58-59: the two address tests
AddressedToUs(to_address) == to_address = OUR_ADDRESS
SentFromLintronic(from_address) == from_address = LINTRONIC_ADDRESS

\* a test that compares only as many digits as were extracted
ChecksumMismatchPrefix(checksum, expected_checksum) ==
    checksum # SubSeq(expected_checksum, 1, Len(checksum))

\* lintronic.py:74: if checksum != expected_checksum
ChecksumMismatch(checksum, expected_checksum) == checksum # expected_checksum

\* handle_incoming_message on the bytes buffered after a start marker: what
\* it reads, what it logs (outcome) and what it leaves in the buffer
HandleIncomingMessage(buffer) ==
    LET to_address == SubSeq(buffer, 1, 2)
        from_address == SubSeq(buffer, 3, 4)
        cmd == SubSeq(buffer, 5, 7)
        rest == SubSeq(buffer, 8, Len(buffer))
        end == FirstIndex(rest, END_OF_TRANSMISSION)
        data_and_checksum == SubSeq(rest, 1, end)
        data == DataOf(data_and_checksum)
        checksum == ChecksumOf(data_and_checksum)
        msg == to_address \o from_address \o cmd \o data
        expected_checksum == Checksum(msg)
        none == [outcome |-> "", left |-> <<>>, cmd |-> <<>>, data |-> <<>>,
                 checksum |-> <<>>, expected_checksum |-> <<>>]
    IN IF ~AddressedToUs(to_address) THEN
          [none EXCEPT !.outcome = "not addressed to us",
                       !.left = SubSeq(buffer, 3, Len(buffer))]
       ELSE IF ~SentFromLintronic(from_address) THEN
          [none EXCEPT !.outcome = "not sent from Lintronic",
                       !.left = SubSeq(buffer, 5, Len(buffer))]
       ELSE
          [outcome |-> IF ChecksumMismatch(checksum, expected_checksum)
                       THEN "invalid checksum"
                       ELSE "got cmd",
           left |-> SubSeq(rest, end + 1, Len(rest)),
           cmd |-> cmd, data |-> data,
           checksum |-> checksum, expected_checksum |-> expected_checksum]

\* the reads of handle_incoming_message can all be served from the buffer
\* (otherwise the coroutine stays suspended in readexactly or readuntil)
CanHandle(buffer) ==
    /\ Len(buffer) >= 2
    /\ AddressedToUs(SubSeq(buffer, 1, 2)) => Len(buffer) >= 4
    /\ (AddressedToUs(SubSeq(buffer, 1, 2)) /\ SentFromLintronic(SubSeq(buffer, 3, 4)))
          => /\ Len(buffer) >= 7
             /\ FirstIndex(SubSeq(buffer, 8, Len(buffer)), END_OF_TRANSMISSION) # 0

\* "<", two addresses, command, repeat count, suffix, checksum, ">"
MaxFrameLen == 1 + 2 + 2 + 33 + 3 + 3 + 3 + 1

RepeatCounts == 0..MaxRepeat \cup {10, 99, 100, 999}
Addresses == {OUR_ADDRESS, LINTRONIC_ADDRESS}

\* the frames the serial line delivers: built by the encoding rule, with
\* every pair of addresses
InboundFrames ==
    {EncodeFrame(to, from, BeoCommandValue(c), n) :
        to \in Addresses, from \in Addresses, c \in BeoCommands, n \in RepeatCounts}

\* the receive loop: pc, what the last handle_incoming_message logged and
\* read, the outcome of the frame before (last), the bytes readuntil threw
\* away in front of the start marker (skipped), and the position of the byte
\* of the buffered frame that the line changed (flip, 0 for none)
RxIdle == [pc |-> "listen", outcome |-> "", cmd |-> <<>>, data |-> <<>>,
           checksum |-> <<>>, expected_checksum |-> <<>>, last |-> "",
           skipped |-> 0, flip |-> 0]

\* the serial line delivers a frame once the loop has handled the one before,
\* behind what the loop left in the buffer (the observation ends with the
\* frame that had a byte changed)
SerialReceive(f) ==
    /\ rx.pc = "listen"
    /\ rx.flip = 0
    /\ reader = <<>> \/ rx.outcome # ""
    /\ frame' = f
    /\ reader' = reader \o f
    /\ rx' = [RxIdle EXCEPT !.last = rx.outcome]
    /\ UNCHANGED <<coordVars, dbusVars, http, ev>>

\* the bytes other than the line changes a byte to
FlipBytes == {0, Ascii(0), Ascii(9), START_OF_TRANSMISSION,
              END_OF_TRANSMISSION, 255}

\* the positions of the command, data and checksum bytes of a frame
FlipPositions(f) == 6..(Len(f) - 1)

\* the line changes one byte of a frame from the Lintronic to us before the
\* loop reads it
Corrupt(k, b) ==
    /\ rx.pc = "listen"
    /\ rx.flip = 0
    /\ reader = frame
    /\ frame # <<>>
    /\ AddressedToUs(SubSeq(frame, 2, 3))
    /\ SentFromLintronic(SubSeq(frame, 4, 5))
    /\ k \in FlipPositions(frame)
    /\ b # frame[k]
    /\ reader' = [reader EXCEPT ![k] = b]
    /\ rx' = [rx EXCEPT !.flip = k]
    /\ UNCHANGED <<coordVars, dbusVars, http, ev, frame>>

\* listen_for_incoming_messages: readuntil(START_OF_TRANSMISSION) returned
ListenForIncomingMessages ==
    /\ rx.pc = "listen"
    /\ FirstIndex(reader, START_OF_TRANSMISSION) # 0
    /\ reader' = SubSeq(reader, FirstIndex(reader, START_OF_TRANSMISSION) + 1,
                        Len(reader))
    /\ rx' = [rx EXCEPT !.pc = "handle",
                        !.skipped = FirstIndex(reader, START_OF_TRANSMISSION) - 1]
    /\ UNCHANGED <<coordVars, dbusVars, http, ev, frame>>

\* listen_for_incoming_messages: await self.handle_incoming_message()
IncomingMessage ==
    /\ rx.pc = "handle"
    /\ CanHandle(reader)
    /\ LET h == HandleIncomingMessage(reader)
       IN /\ reader' = h.left
          /\ rx' = [RxIdle EXCEPT !.outcome = h.outcome, !.cmd = h.cmd,
                                  !.data = h.data, !.checksum = h.checksum,
                                  !.expected_checksum = h.expected_checksum,
                                  !.flip = rx.flip]
    /\ UNCHANGED <<coordVars, dbusVars, http, ev, frame>>

InitCodec ==
    /\ last_known_volume = DefaultVolume
    /\ last_known_playback_status = "Unknown"
    /\ shutdown_timer_task = NoTask
    /\ timers = <<>>
    /\ tasks = EmptyBag
    /\ conn_lost = FALSE
    /\ owners = {}
    /\ spotify_handler = NoSession
    /\ noc_tasks = EmptyBag
    /\ sessions = EmptyBag
    /\ ev = NoEv
    /\ http = HttpIdle(DefaultSecret)
    /\ frame = <<>>
    /\ reader = <<>>
    /\ rx = RxIdle

NextCodec ==
    \/ \E f \in InboundFrames : SerialReceive(f)
    \/ \E k \in 1..MaxFrameLen, b \in FlipBytes : Corrupt(k, b)
    \/ ListenForIncomingMessages
    \/ IncomingMessage

SpecCodec == InitCodec /\ [][NextCodec]_vars

(***************************************************************************)
(* The presence tracker alone, with every bus name                         *)
(***************************************************************************)
InitDbus ==
    /\ last_known_volume = DefaultVolume
    /\ last_known_playback_status = "Unknown"
    /\ shutdown_timer_task = NoTask
    /\ timers = <<>>
    /\ tasks = EmptyBag
    /\ conn_lost = FALSE
    /\ owners \in SUBSET BusNames
    /\ spotify_handler \in InitialSessions(owners)
    /\ noc_tasks = EmptyBag
    /\ sessions = SessionsOf(spotify_handler)
    /\ ev = NoEv
    /\ http = HttpIdle(DefaultSecret)
    /\ frame = <<>>
    /\ reader = <<>>
    /\ rx = RxIdle

NextDbus ==
    \/ \E bus_name \in BusNames : NameOwnerChanged(bus_name)
    \/ \E t \in BagToSet(noc_tasks) : NameHasOwnerReply(t)
    \/ \E t \in BagToSet(noc_tasks) : SessionCreated(t)
    \/ \E t \in BagToSet(noc_tasks) : SessionCreateRaises(t)

SpecDbus == InitDbus /\ [][NextDbus]_vars

(***************************************************************************)
(* The HTTP trigger and the power-off it calls                             *)
(***************************************************************************)
InitWeb ==
    /\ last_known_volume = DefaultVolume
    /\ last_known_playback_status = "Unknown"
    /\ shutdown_timer_task = NoTask
    /\ timers = <<>>
    /\ tasks = EmptyBag
    /\ conn_lost = FALSE
    /\ owners \in SUBSET CoordBusNames
    /\ spotify_handler = InitialSession(owners)
    /\ noc_tasks = EmptyBag
    /\ sessions = SessionsOf(spotify_handler)
    /\ ev = NoEv
    /\ http \in {HttpIdle(auth_secret) : auth_secret \in Secrets}
    /\ frame = <<>>
    /\ reader = <<>>
    /\ rx = RxIdle

NextWeb ==
    \/ \E auth_header \in AuthHeaders : PowerOffRequest(auth_header)
    \/ \E t \in BagToSet(tasks) : PowerOffSleep(t)
    \/ \E t \in BagToSet(tasks) : PowerOffPause(t)
    \/ \E t \in BagToSet(tasks) : PowerOffWrite(t)
    \/ \E t \in BagToSet(tasks) : PowerOffResponse(t)
    \/ \E t \in BagToSet(tasks) : PowerOffRaises(t)
    \/ ConnectionLost

SpecWeb == InitWeb /\ [][NextWeb]_vars

(***************************************************************************)
(* The claims                                                              *)
(***************************************************************************)
AudioAux == [dev |-> "lintronic", cmd |-> "AUDIO_AUX", n |-> 1]
AudioPowerOff == [dev |-> "lintronic", cmd |-> "AUDIO_POWER_OFF", n |-> 1]
VolumeDownTen == [dev |-> "lintronic", cmd |-> "VOLUME_DOWN", n |-> 10]

\* a call of playback_handler that did not take the short circuit
Transition(status) ==
    /\ ev.op \in {"playback_call", "playback_return"}
    /\ ev.status = status
    /\ ev.prev \notin {"", status}

\* C1: a shutdown timer that start_shutdown_timer has superseded before it
\* woke never writes AUDIO_POWER_OFF: no superseded timer is left sleeping,
\* and the timer that writes AUDIO_POWER_OFF at its wake-up is the one
\* MainHandler holds.
C1_TimerSupersession ==
    /\ \A k \in 1..Len(timers) : timers[k].state # "sleeping"
    /\ (ev.op = "timer_wake" /\ ev.branch = "power_off") => ev.timer = "held"

\* C1 witness: a second timer was started while the first was still sleeping.
C1_Witness ==
    /\ ev.op = "playback_return"
    /\ ev.branch \in {"Paused", "Stopped"}
    /\ ev.held_before = "sleeping"
    /\ shutdown_timer_task.state = "sleeping"

\* C2: once the AUDIO_AUX of a transition to Playing has been written, no
\* shutdown timer writes AUDIO_POWER_OFF until a later transition to Paused
\* or Stopped has started a new timer: a timer that was sleeping when that
\* AUDIO_AUX was written does not write AUDIO_POWER_OFF at its wake-up.
C2_NoPowerOffAfterPlaying ==
    (ev.op = "timer_wake" /\ ev.branch = "power_off" /\ ev.timer = "held")
        => ~shutdown_timer_task.playing_since

\* C3: a frame built by the encoding rule and addressed to us (destination
\* "00", source "01") passes the checksum test of handle_incoming_message:
\* the checksum it extracts equals the checksum it recomputes.
C3_ChecksumRoundTrip ==
    (/\ rx.outcome # ""
     /\ rx.flip = 0
     /\ \E c \in BeoCommands, n \in RepeatCounts :
           frame = EncodeFrame(OUR_ADDRESS, LINTRONIC_ADDRESS, BeoCommandValue(c), n))
        => /\ rx.checksum = rx.expected_checksum
           /\ rx.outcome = "got cmd"

\* C4: volume_handler(n) writes exactly one command, with repeat count 1:
\* VOLUME_UP if n is greater than the last known volume at the call and
\* VOLUME_DOWN otherwise (also when they are equal); when it returns the last
\* known volume is n.
C4_VolumeMapping ==
    /\ ev.op = "volume_call" =>
          ev.out = <<[dev |-> "lintronic",
                      cmd |-> IF ev.volume > ev.prev_volume THEN "VOLUME_UP"
                              ELSE "VOLUME_DOWN",
                      n |-> 1]>>
    /\ ev.op = "volume_return" =>
          /\ Len(ev.out) = 1
          /\ ev.out[1].dev = "lintronic"
          /\ ev.out[1].cmd \in {"VOLUME_UP", "VOLUME_DOWN"}
          /\ ev.out[1].n = 1
          /\ last_known_volume = ev.volume

\* C4 witness: volume_handler was called with the last known volume (the
\* equality case) and wrote VOLUME_DOWN.
C4_Witness ==
    /\ ev.op = "volume_call"
    /\ ev.volume = ev.prev_volume
    /\ ev.out[1].cmd = "VOLUME_DOWN"

\* C5: a transition to Paused writes AUDIO_AUX if and only if the last known
\* status at the call was Stopped, and then before the timer is started; it
\* writes nothing else, and when it returns a timer of 15 minutes is pending
\* and the last known status is Paused.
C5_TransitionToPaused ==
    /\ Transition("Paused") =>
          Writes(ev.out) = IF ev.prev = "Stopped" THEN <<AudioAux>> ELSE <<>>
    /\ (ev.op = "playback_return" /\ ev.branch = "Paused") =>
          /\ ev.out \in {<<Armed(15)>>, <<AudioAux, Armed(15)>>}
          /\ shutdown_timer_task.state = "sleeping"
          /\ shutdown_timer_task.timeout = 15
          /\ last_known_playback_status = "Paused"

\* C5 witness: a transition from Stopped to Paused has returned.
C5_Witness ==
    /\ ev.op = "playback_return"
    /\ ev.branch = "Paused"
    /\ ev.out = <<AudioAux, Armed(15)>>

\* C6: a transition to Playing writes exactly one AUDIO_AUX (and nothing
\* else), and when it returns no shutdown timer is pending and the last known
\* status is Playing.
C6_TransitionToPlaying ==
    /\ Transition("Playing") =>
          /\ ev.op = "playback_call"
          /\ ev.out = <<AudioAux>>
    /\ (ev.op = "playback_return" /\ ev.branch = "Playing") =>
          /\ Writes(ev.out) = <<AudioAux>>
          /\ Pending = {}
          /\ last_known_playback_status = "Playing"

\* C6 witness: a transition to Playing returned while a timer was sleeping.
C6_Witness ==
    /\ ev.op = "playback_return"
    /\ ev.branch = "Playing"
    /\ ev.held_before = "sleeping"

\* C7: a transition to Stopped writes no command; when it returns, the only
\* pending shutdown timer is a new one of 5 minutes held by MainHandler (a
\* timer pending before is cancelled) and the last known status is Stopped.
C7_TransitionToStopped ==
    Transition("Stopped") =>
        /\ ev.op = "playback_return"
        /\ ev.branch = "Stopped"
        /\ Writes(ev.out) = <<>>
        /\ Pending = {0}
        /\ shutdown_timer_task.timeout = 5
        /\ ~shutdown_timer_task.fired
        /\ last_known_playback_status = "Stopped"

\* C7 witness: a transition to Stopped while a timer was sleeping.
C7_Witness ==
    /\ Transition("Stopped")
    /\ ev.held_before = "sleeping"

\* C8 (state part): playback_handler with a string that is no status name
\* never takes the short circuit (the short circuit is taken only with the
\* string form of the last known status); it writes no command and leaves the
\* last known status Unknown.
C8_UnparseableState ==
    /\ (ev.op = "playback_return" /\ ev.branch = "short_circuit") => ev.status = ev.prev
    /\ (ev.op \in {"playback_call", "playback_return"} /\ ev.status \notin PlaybackStatus) =>
          /\ ev.op = "playback_return"
          /\ ev.branch = "unparseable"
          /\ ev.out = <<>>
          /\ last_known_playback_status = "Unknown"

\* C8 (step part): that call neither starts nor cancels a shutdown timer and
\* suspends nothing.
C8_UnparseableStep ==
    (ev'.op = "playback_return" /\ ev'.branch = "unparseable") =>
        /\ shutdown_timer_task' = shutdown_timer_task
        /\ timers' = timers
        /\ tasks' = tasks

\* C8: playback_handler with a string that is no status name writes no
\* command, sets the last known status to Unknown and neither starts nor
\* cancels the shutdown timer; called again with the same string it does the
\* same again, the short circuit being taken only with the string form of the
\* last known status.
C8_UnknownStatus == []C8_UnparseableState /\ [][C8_UnparseableStep]_vars

\* C8 witness: a string that is no status name arrived while the last known
\* status was Unknown already and a timer was sleeping.
C8_Witness ==
    /\ ev.op = "playback_return"
    /\ ev.branch = "unparseable"
    /\ ev.prev = "Unknown"
    /\ shutdown_timer_task.state = "sleeping"

\* C9 (state part): a shutdown timer that wakes writes AUDIO_POWER_OFF if and
\* only if the last known status is Paused or Stopped.
C9_WakeState ==
    ev.op = "timer_wake" =>
        /\ ev.prev = last_known_playback_status
        /\ ev.out = IF last_known_playback_status \in {"Paused", "Stopped"}
                    THEN <<AudioPowerOff>> ELSE <<>>
        /\ ev.timer = "held" => shutdown_timer_task.fired = (ev.out # <<>>)

\* C9 (step part): the wake-up changes no state of the coordinator: with
\* Playing or Unknown the timer task just ends.
C9_WakeStep ==
    ev'.op = "timer_wake" =>
        /\ last_known_playback_status' = last_known_playback_status
        /\ last_known_volume' = last_known_volume
        /\ tasks' = tasks
        /\ conn_lost' = conn_lost
        /\ (ev'.timer = "held" /\ ev'.branch = "warning") =>
              shutdown_timer_task' = [shutdown_timer_task EXCEPT !.state = "done"]

\* C9: a shutdown timer that wakes without having been cancelled writes
\* AUDIO_POWER_OFF if and only if the last known status at its wake-up is
\* Paused or Stopped; with Playing or Unknown it writes nothing and changes no
\* state of the coordinator.
C9_TimerWakeRecheck == []C9_WakeState /\ [][C9_WakeStep]_vars

\* C9 witness: a timer woke with the status neither Paused nor Stopped.
C9_Witness ==
    /\ ev.op = "timer_wake"
    /\ ev.branch = "warning"

\* C10: power_off_handler writes VOLUME_DOWN with repeat count 10 first; after
\* its sleep it calls pause if DbusHandler holds a session at that moment and
\* otherwise warns and goes on at once; only then it writes AUDIO_POWER_OFF.
C10_PowerOffOrdering ==
    /\ ev.op \in {"power_off_call", "power_off_sleep"} => ev.out = <<VolumeDownTen>>
    /\ ev.op = "power_off_pause" =>
          ev.out = IF spotify_handler # NoSession
                   THEN <<VolumeDownTen, CallPause>>
                   ELSE <<VolumeDownTen, WarnNoSession, AudioPowerOff>>
    /\ ev.op = "power_off_write" => ev.out = <<VolumeDownTen, CallPause, AudioPowerOff>>
    /\ ev.op = "power_off_return" =>
          /\ SubSeq(ev.out, 1, 3) \in {<<VolumeDownTen, CallPause, AudioPowerOff>>,
                                       <<VolumeDownTen, WarnNoSession, AudioPowerOff>>}
          /\ Writes(ev.out) = <<VolumeDownTen, AudioPowerOff>>

\* C10 witness: power_off_handler returned after skipping the pause for want
\* of a session.
C10_Witness ==
    /\ ev.op = "power_off_return"
    /\ ev.out[2] = WarnNoSession

\* C11: at the step in which power_off_handler completes, the last known
\* status is Paused and no shutdown timer is pending, whatever the status and
\* the timer were when the drain returned.
C11_PowerOffPostcondition ==
    ev.op = "power_off_return" =>
        /\ last_known_playback_status = "Paused"
        /\ Pending = {}
        /\ ~Alive(shutdown_timer_task)

\* power-off completes over a status of Stopped and a sleeping timer, both
\* set by a playback event
C11_Witness ==
    /\ ev.op = "power_off_return"
    /\ ev.prev = "Stopped"
    /\ ev.held_before = "sleeping"
    /\ last_known_playback_status = "Paused"
    /\ Pending = {}

\* the steps of _on_name_owner_changed after its call_name_has_owner returned
C12_ReplyOps == {"noc_create", "noc_return"}

\* C12, the decision: a notification for a name without the prefix changes
\* nothing and issues no re-query; after the re-query for a prefixed name the
\* session is dropped if it is bound to that name and the name has no owner,
\* a session bound to that name is created and subscribed if there is none
\* and the name has an owner, and nothing changes otherwise.
C12_DecisionStep ==
    LET b == ev'.bus_name
        h == ev'.has_owner
    IN /\ (ev'.op \in {"noc_call", "noc_return"} /\ ~HasPrefix(b)) =>
              /\ ev'.branch = "ignored"
              /\ UNCHANGED <<spotify_handler, sessions, noc_tasks>>
       /\ (ev'.op = "noc_call" /\ HasPrefix(b)) =>
              /\ noc_tasks' = noc_tasks (+) SetToBag({[bus_name |-> b, pc |-> "has_owner"]})
              /\ UNCHANGED <<spotify_handler, sessions>>
       /\ (ev'.op \in C12_ReplyOps /\ ev'.branch \in {"", "lost", "unchanged"}) =>
              /\ h = (b \in owners)
              /\ IF spotify_handler # NoSession /\ spotify_handler = b /\ ~h
                 THEN /\ spotify_handler' = NoSession
                      /\ sessions' = sessions (-) SetToBag({b})
                 ELSE IF spotify_handler = NoSession /\ h
                 THEN /\ ev'.op = "noc_create"
                      /\ BagIn([bus_name |-> b, pc |-> "create"], noc_tasks')
                 ELSE /\ ev'.op = "noc_return"
                      /\ UNCHANGED <<spotify_handler, sessions>>
       /\ (ev'.op = "noc_return" /\ ev'.branch = "new") =>
              /\ spotify_handler' = b
              /\ sessions' = sessions (+) SetToBag({b})

\* C12, the other name: a session bound to one name is dropped or replaced
\* only by a notification about that name.
C12_OtherNameStep ==
    (spotify_handler # NoSession /\ spotify_handler' # spotify_handler) =>
        ev'.bus_name = spotify_handler

\* C12: on a name-ownership-changed notification the tracker re-queries and
\* drops, creates or keeps the session as the decision says, and events
\* about a name B never drop or replace a session bound to a name A.
C12_PresenceTransitions == [][C12_DecisionStep /\ C12_OtherNameStep]_vars

\* C17: at most one player session is created and subscribed without having
\* been dropped, also when notifications interleave at their suspension
\* points.
C17_SingleSession == BagCardinality(sessions) <= 1

\* the two outcomes of a frame that fails an address test
AddressRejections == {"not addressed to us", "not sent from Lintronic"}

\* C13, the outcome: a frame whose destination is not "00", or whose source
\* is not "01", is logged as such and nothing of it is accepted; and after
\* such a frame the loop resumes right behind the next start marker.
C13_AddressState ==
    /\ (rx.pc = "listen" /\ rx.outcome # "" /\ rx.flip = 0) =>
          LET to_address == SubSeq(frame, 2, 3)
              from_address == SubSeq(frame, 4, 5)
          IN /\ to_address # OUR_ADDRESS =>
                   rx.outcome = "not addressed to us"
             /\ (to_address = OUR_ADDRESS /\ from_address # LINTRONIC_ADDRESS) =>
                   rx.outcome = "not sent from Lintronic"
             /\ rx.outcome \in AddressRejections =>
                   /\ to_address # OUR_ADDRESS \/ from_address # LINTRONIC_ADDRESS
                   /\ rx.cmd = <<>> /\ rx.data = <<>>
                   /\ FirstIndex(reader, START_OF_TRANSMISSION) = 0
    /\ (rx.pc = "handle" /\ rx.last \in AddressRejections) =>
          reader = Tail(frame)

\* C13, the step that rejects: the handler returns to the loop and the
\* coordinator's and the tracker's state stay as they are.
C13_AddressStep ==
    (rx.pc = "handle" /\ rx'.outcome \in AddressRejections) =>
        /\ rx'.pc = "listen"
        /\ UNCHANGED <<coordVars, dbusVars, ev>>

\* C13: a frame with a destination other than "00" or a source other than
\* "01" is discarded without an accepted command and without a change of
\* coordinator state, and the receive loop goes on with the next start marker.
C13_AddressRejection == []C13_AddressState /\ [][C13_AddressStep]_vars

\* the loop has rejected a frame for its destination, thrown away the rest
\* of it and stands behind the start marker of the next frame
C13_Witness ==
    /\ rx.pc = "handle"
    /\ rx.last = "not addressed to us"
    /\ rx.skipped > 0
    /\ reader = Tail(frame)

\* C14: a frame from the Lintronic to us in which one byte of the command,
\* the data or the checksum field was changed to another value is discarded
\* as a checksum mismatch.
C14_ChecksumRejection ==
    (/\ rx.pc = "listen"
     /\ rx.outcome # ""
     /\ rx.flip \in FlipPositions(frame)
     /\ \E c \in BeoCommands, n \in RepeatCounts :
           frame = EncodeFrame(OUR_ADDRESS, LINTRONIC_ADDRESS, BeoCommandValue(c), n))
        => /\ rx.outcome = "invalid checksum"
           /\ rx.checksum # rx.expected_checksum

\* a frame whose last checksum digit was changed has been discarded
C14_Witness ==
    /\ rx.outcome = "invalid checksum"
    /\ frame # <<>>
    /\ rx.flip = Len(frame) - 1

\* the one header that carries the secret
C15_RightHeader == BearerPrefix \o http.secret

\* C15, the state of a request: the callback has been invoked (the request
\* waits for it, or was answered 200, or 500 because it raised) only for the
\* header "Bearer " followed by the secret, and every other header, and no
\* header, has been answered 401.
C15_RequestState ==
    /\ http.pc = "callback" => http.auth_header = C15_RightHeader
    /\ http.pc = "done" =>
          IF http.auth_header = C15_RightHeader
          THEN http.status \in {200, 500}
          ELSE http.status = 401
    /\ http.pc = "idle" => http.status = 0

\* C15, the steps of a request: the step that takes a request invokes
\* power_off_handler if and only if the header is the right one and
\* otherwise changes nothing but the response; 200 is the answer of the
\* step in which power_off_handler returns.
C15_RequestStep ==
    /\ (http.pc # "callback" /\ http' # http) =>
          IF http'.auth_header = BearerPrefix \o http.secret
          THEN /\ http'.pc = "callback"
               /\ ev'.op = "power_off_call"
               /\ BagCardinality(tasks') = BagCardinality(tasks) + 1
          ELSE /\ http'.status = 401
               /\ ev'.op = "http_401"
               /\ UNCHANGED <<coordVars, dbusVars>>
    /\ (http.pc = "callback" /\ http' # http) =>
          (http'.status = 200) = (ev'.op = "power_off_return")

\* C15: the power-off callback is invoked (and 200 is the answer when it
\* returns) exactly when the Authorization header is "Bearer " followed by
\* the configured secret; every other request is answered 401 and does not
\* invoke it.
C15_Authorization == []C15_RequestState /\ [][C15_RequestStep]_vars

\* a request with the right header for a secret of two characters has been
\* answered 200 after power_off_handler ran to its end
C15_Witness ==
    /\ http.status = 200
    /\ Len(http.secret) = MaxSecretLen
    /\ http.auth_header = C15_RightHeader
    /\ ev.op = "power_off_return"

\* C16: whatever playback_handler, power_off_handler, volume_handler and the
\* timer tasks have done, at most one shutdown timer task is pending (armed
\* and neither cancelled nor finished): the held one, and none that is no
\* longer referenced.
C16_SinglePendingTimer ==
    /\ Cardinality(Pending) <= 1
    /\ \A k \in 1..Len(timers) : ~Alive(timers[k])

\* a timer is pending that replaced a sleeping one, while a volume_handler
\* is suspended in its write
C16_Witness ==
    /\ Pending = {0}
    /\ ev.op = "playback_return"
    /\ ev.held_before = "sleeping"
    /\ \E t \in BagToSet(tasks) : t.kind = "volume"

\* C18: volume_handler(n) leaves the last known volume at n on every
\* invocation, whether its write went through or failed with the connection
\* lost.
C18_VolumeUpdateOnFailure ==
    /\ ev.op = "volume_return" => last_known_volume = ev.volume
    /\ (ev.op = "raise" /\ ev.branch = "volume") => last_known_volume = ev.volume

\* C19, the step: a call of playback_handler with the string form of the
\* current status writes nothing, arms and cancels nothing, suspends nowhere
\* and leaves the status, the volume and the timer as they are.
C19_ShortCircuitStep ==
    (/\ ev'.op \in {"playback_call", "playback_return"}
     /\ ev'.prev = last_known_playback_status
     /\ ev'.status = last_known_playback_status)
        => /\ ev'.branch = "short_circuit"
           /\ ev'.out = <<>>
           /\ UNCHANGED <<last_known_playback_status, last_known_volume,
                          shutdown_timer_task, timers, tasks>>

\* C19: playback_handler called with the string form of the current status
\* (also "Unknown" while the status is Unknown) emits no command and leaves
\* status, volume and shutdown timer unchanged; a repeated "Paused" or
\* "Stopped" does not arm the timer again.
C19_ShortCircuit == [][C19_ShortCircuitStep]_vars

\* a second "Paused" has been handled while the timer of the first is asleep
C19_Witness ==
    /\ ev.op = "playback_return"
    /\ ev.branch = "short_circuit"
    /\ ev.status = "Paused"
    /\ last_known_playback_status = "Paused"
    /\ shutdown_timer_task.state = "sleeping"
    /\ shutdown_timer_task.timeout = FIFTEEN_MINUTES

\* the transition to Paused or Stopped is complete: the status is set, the
\* timer it armed is asleep, the serial stream is up and no handler is
\* suspended
C20_Armed ==
    /\ last_known_playback_status \in {"Paused", "Stopped"}
    /\ shutdown_timer_task.state = "sleeping"
    /\ tasks = EmptyBag
    /\ ~conn_lost

\* the held timer has woken and written AUDIO_POWER_OFF
C20_Fired == shutdown_timer_task.fired

\* something else has happened since: a handler was called (a status
\* change, a power-off request), the status is no longer Paused or Stopped,
\* the timer was cancelled, or the serial stream broke
C20_Disturbed ==
    \/ tasks # EmptyBag
    \/ last_known_playback_status \notin {"Paused", "Stopped"}
    \/ shutdown_timer_task.state = "cancelled"
    \/ conn_lost

\* a timer task that has written AUDIO_POWER_OFF does not wake again
C20_OnceStep ==
    (ev'.op = "timer_wake" /\ ev'.timer = "held") =>
        /\ ~shutdown_timer_task.fired
        /\ Len(Writes(ev'.out)) <= 1

\* C20: once a transition to Paused or Stopped is complete, and unless a
\* further status change, a power-off request or a transport failure comes
\* in between, the armed timer eventually wakes and writes AUDIO_POWER_OFF,
\* and it writes it once (the timer task is scheduled fairly).
C20_EventualPowerOff ==
    /\ C20_Armed ~> (C20_Fired \/ C20_Disturbed)
    /\ [][C20_OnceStep]_vars

\* the timer armed by a transition to Stopped has written AUDIO_POWER_OFF
C20_Witness ==
    /\ ev.op = "timer_wake"
    /\ ev.branch = "power_off"
    /\ ev.timer = "held"
    /\ ev.prev = "Stopped"
    /\ shutdown_timer_task.fired
    /\ shutdown_timer_task.timeout = FIVE_MINUTES
    /\ tasks = EmptyBag
    /\ ~conn_lost
====
